---- MODULE Spec2Model ----
(***************************************************************************)
(* Plan entitlements, usage gates and the upgrade advisory of the          *)
(* ProspectAI frontend: the plan catalog of the auth store, the upgrade    *)
(* store and its suggestion functions, the usePlanLimits gates and the     *)
(* useLeadLimits usage summary.                                            *)
(***************************************************************************)
EXTENDS Integers, Sequences, FiniteSets, TLC

VARIABLES
    user,         \* authStore.user (only plan_tier is read by the gates)
    usageLimits,  \* usePlanLimits: useState<UsageLimits | null>
    isLoading,    \* usePlanLimits: useState(true)
    isOpen,       \* upgradeStore.isOpen
    context,      \* upgradeStore.context
    usage,        \* useLeadLimits: useState<LeadUsageSummary | null>
    loading,      \* useLeadLimits: useState(true)
    error,        \* useLeadLimits: useState<string | null>
    lastCall,     \* the most recent gate call and the value it returned
    auth,         \* authStore: accessToken, refreshToken, isAuthenticated
    req,          \* one request sent through the api instance, and its promise
    fetches,      \* usePlanLimits: the GET /dashboard/usage-limits requests issued
    canAddLeads,  \* useCanAddLeads: canAdd, remaining, loading
    page,         \* the route shown, and the Upgrade page's last plan selection
    ws,           \* useScrapingWebSocket: state, refs, sockets and timers
    dialog,       \* useConfirmDialog: state, resolveRef and the promises handed out
    me            \* authStore.refreshUser: its GET /auth/me

vars ==
    <<user, usageLimits, isLoading, isOpen, context, usage, loading, error, lastCall,
      auth, req, fetches, canAddLeads, page, ws, dialog, me>>

\* ------------------------------------------------------------------ bounds

\* largest finite quota limit a server response carries
MaxLimit == 1
\* largest usage counter a server response carries
MaxUsed == 1
\* largest number of add-on leads (leads_from_packages) in a usage summary
MaxPackages == 1

\* ------------------------------------------------------------- JS values

\* JavaScript null (state that holds "no object")
Null == [isNull |-> TRUE]

\* the sentinel of an unlimited quota
Unlimited == -1

\* Array.prototype.indexOf: 0-based position of x in seq, -1 when absent
indexOf(seq, x) ==
    IF \E i \in 1..Len(seq) : seq[i] = x
    THEN (CHOOSE i \in 1..Len(seq) : seq[i] = x /\ \A j \in 1..(i - 1) : seq[j] # x) - 1
    ELSE -1

\* ----------------------------------------------------------- plan catalog

PlanTier == {"free", "starter", "pro", "scale"}

FeatureFlags ==
    {"whatsapp_enabled", "whatsapp_official_api", "advanced_filters", "funnel_reports",
     "campaign_comparison", "crm_integration", "priority_support", "sso"}

QuotaNames == {"prospects_per_month", "agents", "campaigns"}

\* the catalog with funnel_reports switched off again at the pro tier
PLAN_FEATURES_funnel_dropped ==
    [free |-> [prospects_per_month |-> 50, agents |-> 1, campaigns |-> 1,
               whatsapp_enabled |-> FALSE, whatsapp_official_api |-> FALSE,
               advanced_filters |-> FALSE, funnel_reports |-> FALSE,
               campaign_comparison |-> FALSE, crm_integration |-> FALSE,
               priority_support |-> FALSE, sso |-> FALSE],
     starter |-> [prospects_per_month |-> 500, agents |-> 1, campaigns |-> 3,
               whatsapp_enabled |-> TRUE, whatsapp_official_api |-> FALSE,
               advanced_filters |-> TRUE, funnel_reports |-> TRUE,
               campaign_comparison |-> FALSE, crm_integration |-> FALSE,
               priority_support |-> FALSE, sso |-> FALSE],
     pro |-> [prospects_per_month |-> 2000, agents |-> 5, campaigns |-> 10,
               whatsapp_enabled |-> TRUE, whatsapp_official_api |-> TRUE,
               advanced_filters |-> TRUE, funnel_reports |-> FALSE,
               campaign_comparison |-> TRUE, crm_integration |-> TRUE,
               priority_support |-> FALSE, sso |-> FALSE],
     scale |-> [prospects_per_month |-> -1, agents |-> -1, campaigns |-> -1,
               whatsapp_enabled |-> TRUE, whatsapp_official_api |-> TRUE,
               advanced_filters |-> TRUE, funnel_reports |-> TRUE,
               campaign_comparison |-> TRUE, crm_integration |-> TRUE,
               priority_support |-> TRUE, sso |-> TRUE]]

\* PLAN_FEATURES: limits and features per plan
PLAN_FEATURES ==
    [free |-> [prospects_per_month |-> 50, agents |-> 1, campaigns |-> 1,
               whatsapp_enabled |-> FALSE, whatsapp_official_api |-> FALSE,
               advanced_filters |-> FALSE, funnel_reports |-> FALSE,
               campaign_comparison |-> FALSE, crm_integration |-> FALSE,
               priority_support |-> FALSE, sso |-> FALSE],
     starter |-> [prospects_per_month |-> 500, agents |-> 1, campaigns |-> 3,
               whatsapp_enabled |-> TRUE, whatsapp_official_api |-> FALSE,
               advanced_filters |-> TRUE, funnel_reports |-> TRUE,
               campaign_comparison |-> FALSE, crm_integration |-> FALSE,
               priority_support |-> FALSE, sso |-> FALSE],
     pro |-> [prospects_per_month |-> 2000, agents |-> 5, campaigns |-> 10,
               whatsapp_enabled |-> TRUE, whatsapp_official_api |-> TRUE,
               advanced_filters |-> TRUE, funnel_reports |-> TRUE,
               campaign_comparison |-> TRUE, crm_integration |-> TRUE,
               priority_support |-> FALSE, sso |-> FALSE],
     scale |-> [prospects_per_month |-> -1, agents |-> -1, campaigns |-> -1,
               whatsapp_enabled |-> TRUE, whatsapp_official_api |-> TRUE,
               advanced_filters |-> TRUE, funnel_reports |-> TRUE,
               campaign_comparison |-> TRUE, crm_integration |-> TRUE,
               priority_support |-> TRUE, sso |-> TRUE]]

\* authStore.getPlanTier: (user?.plan_tier || 'free')
getPlanTier == IF user = Null THEN "free" ELSE user.plan_tier

\* authStore.getPlanFeatures: PLAN_FEATURES[tier]
getPlanFeatures == PLAN_FEATURES[getPlanTier]

\* ---------------------------------------------------------- upgrade store

UpgradeReason ==
    {"leads_limit", "agents_limit", "campaigns_limit", "whatsapp", "whatsapp_official",
     "advanced_filters", "funnel_reports", "campaign_comparison", "crm_integration",
     "priority_support", "sso", "general"}

\* MINIMUM_PLAN_FOR_FEATURE: the plan suggested per reason
MINIMUM_PLAN_FOR_FEATURE ==
    [leads_limit |-> "starter", agents_limit |-> "starter", campaigns_limit |-> "starter",
     whatsapp |-> "starter", whatsapp_official |-> "pro", advanced_filters |-> "starter",
     funnel_reports |-> "starter", campaign_comparison |-> "pro", crm_integration |-> "pro",
     priority_support |-> "scale", sso |-> "scale", general |-> "starter"]

planOrder == <<"free", "starter", "pro", "scale">>

\* getNextPlan without the test for the last tier: wraps around to the first upgrade
getNextPlan_wraps(currentPlan) ==
    LET currentIndex == indexOf(planOrder, currentPlan)
    IN  IF currentIndex = -1
        THEN "null"
        ELSE IF currentIndex >= Len(planOrder) - 1
             THEN planOrder[2]
             ELSE planOrder[(currentIndex + 1) + 1]

\* getNextPlan: the tier after currentPlan, "null" at the top or for an unknown plan
getNextPlan(currentPlan) ==
    LET currentIndex == indexOf(planOrder, currentPlan)
    IN  IF currentIndex = -1 \/ currentIndex >= Len(planOrder) - 1
        THEN "null"
        ELSE planOrder[(currentIndex + 1) + 1]

\* getSuggestedPlan that always answers the next tier
getSuggestedPlan_nextOnly(currentPlan, reason) ==
    LET nextPlan == getNextPlan(currentPlan)
    IN  IF nextPlan = "null" THEN "scale" ELSE nextPlan

\* getSuggestedPlan with the comparison reversed: the lower of the two tiers
getSuggestedPlan_lower(currentPlan, reason) ==
    LET nextPlan == getNextPlan(currentPlan)
        minimumPlan == MINIMUM_PLAN_FOR_FEATURE[reason]
    IN  IF nextPlan = "null"
        THEN "scale"
        ELSE IF indexOf(planOrder, nextPlan) <= indexOf(planOrder, minimumPlan)
             THEN nextPlan
             ELSE minimumPlan

\* getSuggestedPlan: the higher of the next tier and the reason's minimum tier
getSuggestedPlan(currentPlan, reason) ==
    LET nextPlan == getNextPlan(currentPlan)
        minimumPlan == MINIMUM_PLAN_FOR_FEATURE[reason]
    IN  IF nextPlan = "null"
        THEN "scale"
        ELSE LET nextPlanIndex == indexOf(planOrder, nextPlan)
                 minimumPlanIndex == indexOf(planOrder, minimumPlan)
             IN  IF nextPlanIndex >= minimumPlanIndex THEN nextPlan ELSE minimumPlan

\* the context stored as the caller gave it, without the default plan
openContext_noDefault(ctx) == ctx

\* { ...context, suggestedPlan: context.suggestedPlan || MINIMUM_PLAN_FOR_FEATURE[reason] }
openContext(ctx) ==
    [f \in (DOMAIN ctx) \cup {"suggestedPlan"} |->
        IF f = "suggestedPlan"
        THEN IF "suggestedPlan" \in DOMAIN ctx
             THEN ctx.suggestedPlan
             ELSE MINIMUM_PLAN_FOR_FEATURE[ctx.reason]
        ELSE ctx[f]]

\* the contexts the four show* helpers build
leadsLimitContext(used, limit) ==
    [reason |-> "leads_limit", currentValue |-> used, limitValue |-> limit,
     suggestedPlan |-> "starter"]

agentsLimitContext(used, limit) ==
    [reason |-> "agents_limit", currentValue |-> used, limitValue |-> limit,
     suggestedPlan |-> "pro"]

campaignsLimitContext(used, limit) ==
    [reason |-> "campaigns_limit", currentValue |-> used, limitValue |-> limit,
     suggestedPlan |-> "starter"]

featureRequiredContext(featureName, suggestedPlan) ==
    [reason |-> "general", featureName |-> featureName, suggestedPlan |-> suggestedPlan]

\* UpgradeModal: what the dialog renders from the two stores
UpgradeModal ==
    IF context = Null
    THEN Null
    ELSE LET currentPlan == getPlanTier
             currentIndex == indexOf(planOrder, currentPlan)
         IN  [suggestedPlan |-> getSuggestedPlan(currentPlan, context.reason),
              availablePlans |->
                  {plan \in {"starter", "pro", "scale"} :
                      indexOf(planOrder, plan) > currentIndex}]

\* the four store transitions that open the modal, and the one that closes it
openUpgradeModal(ctx) ==
    /\ isOpen' = TRUE
    /\ context' = openContext(ctx)

closeUpgradeModal ==
    /\ isOpen' = FALSE
    /\ context' = Null

showLeadsLimitReached(used, limit) ==
    /\ isOpen' = TRUE
    /\ context' = leadsLimitContext(used, limit)

showAgentsLimitReached(used, limit) ==
    /\ isOpen' = TRUE
    /\ context' = agentsLimitContext(used, limit)

showCampaignsLimitReached(used, limit) ==
    /\ isOpen' = TRUE
    /\ context' = campaignsLimitContext(used, limit)

showFeatureRequired(featureName, suggestedPlan) ==
    /\ isOpen' = TRUE
    /\ context' = featureRequiredContext(featureName, suggestedPlan)

\* ------------------------------------------------- server responses (inputs)

Resources == {"leads", "agents", "campaigns"}

LimitValues == {Unlimited} \cup (0..MaxLimit)

UsedValues == (-1)..MaxUsed

QuotaPairs == [limit : LimitValues, used : UsedValues]

\* the (limit, used) pairs of the two resources a response does not vary
RestPairs == {[limit |-> Unlimited, used |-> 0], [limit |-> 0, used |-> 0]}

\* The quota part of a GET /dashboard/usage-limits response: one resource carries
\* any pair of QuotaPairs, the two others a common pair of RestPairs.
ResponseQuotas ==
    {[r \in Resources |-> IF r = focus THEN p ELSE rest] :
        focus \in Resources, p \in QuotaPairs, rest \in RestPairs}

\* interface UsageLimits, as the server fills it for a user of tier t (the three
\* *_remaining fields, which no gate reads, are left out)
UsageLimitsOf(t, q) ==
    [plan_tier |-> t,
     leads_limit |-> q["leads"].limit, leads_used |-> q["leads"].used,
     agents_limit |-> q["agents"].limit, agents_used |-> q["agents"].used,
     campaigns_limit |-> q["campaigns"].limit, campaigns_used |-> q["campaigns"].used,
     whatsapp_enabled |-> PLAN_FEATURES[t].whatsapp_enabled,
     whatsapp_official_api |-> PLAN_FEATURES[t].whatsapp_official_api,
     advanced_filters |-> PLAN_FEATURES[t].advanced_filters,
     funnel_reports |-> PLAN_FEATURES[t].funnel_reports,
     campaign_comparison |-> PLAN_FEATURES[t].campaign_comparison,
     crm_integration |-> PLAN_FEATURES[t].crm_integration,
     priority_support |-> PLAN_FEATURES[t].priority_support,
     sso |-> PLAN_FEATURES[t].sso]

\* ------------------------------------------------------------ usePlanLimits

NoCall == [op |-> "none"]

\* the state of the api client and of the hooks' requests, left as it is
ApiUnchanged == UNCHANGED <<auth, req, fetches, canAddLeads, page, ws, dialog, me>>

\* fetchUsageLimits, the request answered: the snapshot is replaced by response.data
FetchUsageLimitsOk ==
    /\ \E q \in ResponseQuotas : usageLimits' = UsageLimitsOf(getPlanTier, q)
    /\ isLoading' = FALSE
    /\ lastCall' = NoCall
    /\ UNCHANGED <<user, isOpen, context, usage, loading, error>>
    /\ ApiUnchanged

\* fetchUsageLimits, the request failed: the error is logged, the snapshot kept
FetchUsageLimitsFail ==
    /\ isLoading' = FALSE
    /\ lastCall' = NoCall
    /\ UNCHANGED <<user, usageLimits, isOpen, context, usage, loading, error>>
    /\ ApiUnchanged

\* canCreateLead with the comparison made inclusive
canCreateLead_inclusive ==
    IF usageLimits = Null THEN TRUE
    ELSE IF usageLimits.leads_limit = -1 THEN TRUE
    ELSE usageLimits.leads_used <= usageLimits.leads_limit

canCreateLead ==
    IF usageLimits = Null THEN TRUE
    ELSE IF usageLimits.leads_limit = -1 THEN TRUE
    ELSE usageLimits.leads_used < usageLimits.leads_limit

canCreateAgent ==
    IF usageLimits = Null THEN TRUE
    ELSE IF usageLimits.agents_limit = -1 THEN TRUE
    ELSE usageLimits.agents_used < usageLimits.agents_limit

canCreateCampaign ==
    IF usageLimits = Null THEN TRUE
    ELSE IF usageLimits.campaigns_limit = -1 THEN TRUE
    ELSE usageLimits.campaigns_used < usageLimits.campaigns_limit

Returned(op, value) == lastCall' = [op |-> op, ret |-> value]

StoreUnchanged == UNCHANGED <<isOpen, context>>

HooksUnchanged ==
    /\ UNCHANGED <<user, usageLimits, isLoading, usage, loading, error>>
    /\ ApiUnchanged

CanCreateLead ==
    /\ Returned("canCreateLead", canCreateLead)
    /\ StoreUnchanged /\ HooksUnchanged

CanCreateAgent ==
    /\ Returned("canCreateAgent", canCreateAgent)
    /\ StoreUnchanged /\ HooksUnchanged

CanCreateCampaign ==
    /\ Returned("canCreateCampaign", canCreateCampaign)
    /\ StoreUnchanged /\ HooksUnchanged

\* checkLeadsLimit blocking only above the limit
CheckLeadsLimit_exclusive ==
    /\ IF usageLimits = Null
       THEN Returned("checkLeadsLimit", TRUE) /\ StoreUnchanged
       ELSE IF usageLimits.leads_limit = -1
       THEN Returned("checkLeadsLimit", TRUE) /\ StoreUnchanged
       ELSE IF usageLimits.leads_used > usageLimits.leads_limit
       THEN /\ showLeadsLimitReached(usageLimits.leads_used, usageLimits.leads_limit)
            /\ Returned("checkLeadsLimit", FALSE)
       ELSE Returned("checkLeadsLimit", TRUE) /\ StoreUnchanged
    /\ HooksUnchanged

CheckLeadsLimit ==
    /\ IF usageLimits = Null
       THEN Returned("checkLeadsLimit", TRUE) /\ StoreUnchanged
       ELSE IF usageLimits.leads_limit = -1
       THEN Returned("checkLeadsLimit", TRUE) /\ StoreUnchanged
       ELSE IF usageLimits.leads_used >= usageLimits.leads_limit
       THEN /\ showLeadsLimitReached(usageLimits.leads_used, usageLimits.leads_limit)
            /\ Returned("checkLeadsLimit", FALSE)
       ELSE Returned("checkLeadsLimit", TRUE) /\ StoreUnchanged
    /\ HooksUnchanged

\* checkAgentsLimit counting the agent it is about to allow into the local snapshot
CheckAgentsLimit_counts ==
    /\ IF usageLimits = Null
       THEN Returned("checkAgentsLimit", TRUE) /\ StoreUnchanged
                /\ UNCHANGED usageLimits
       ELSE IF usageLimits.agents_limit = -1
       THEN Returned("checkAgentsLimit", TRUE) /\ StoreUnchanged
                /\ UNCHANGED usageLimits
       ELSE IF usageLimits.agents_used >= usageLimits.agents_limit
       THEN /\ showAgentsLimitReached(usageLimits.agents_used, usageLimits.agents_limit)
            /\ Returned("checkAgentsLimit", FALSE)
            /\ UNCHANGED usageLimits
       ELSE /\ Returned("checkAgentsLimit", TRUE) /\ StoreUnchanged
            /\ usageLimits' = [usageLimits EXCEPT !.agents_used = @ + 1]
    /\ UNCHANGED <<user, isLoading, usage, loading, error>>
    /\ ApiUnchanged

CheckAgentsLimit ==
    /\ IF usageLimits = Null
       THEN Returned("checkAgentsLimit", TRUE) /\ StoreUnchanged
       ELSE IF usageLimits.agents_limit = -1
       THEN Returned("checkAgentsLimit", TRUE) /\ StoreUnchanged
       ELSE IF usageLimits.agents_used >= usageLimits.agents_limit
       THEN /\ showAgentsLimitReached(usageLimits.agents_used, usageLimits.agents_limit)
            /\ Returned("checkAgentsLimit", FALSE)
       ELSE Returned("checkAgentsLimit", TRUE) /\ StoreUnchanged
    /\ HooksUnchanged

\* checkCampaignsLimit handing the two numbers to the store in the wrong order
CheckCampaignsLimit_swapped ==
    /\ IF usageLimits = Null
       THEN Returned("checkCampaignsLimit", TRUE) /\ StoreUnchanged
       ELSE IF usageLimits.campaigns_limit = -1
       THEN Returned("checkCampaignsLimit", TRUE) /\ StoreUnchanged
       ELSE IF usageLimits.campaigns_used >= usageLimits.campaigns_limit
       THEN /\ showCampaignsLimitReached(usageLimits.campaigns_limit,
                                         usageLimits.campaigns_used)
            /\ Returned("checkCampaignsLimit", FALSE)
       ELSE Returned("checkCampaignsLimit", TRUE) /\ StoreUnchanged
    /\ HooksUnchanged

CheckCampaignsLimit ==
    /\ IF usageLimits = Null
       THEN Returned("checkCampaignsLimit", TRUE) /\ StoreUnchanged
       ELSE IF usageLimits.campaigns_limit = -1
       THEN Returned("checkCampaignsLimit", TRUE) /\ StoreUnchanged
       ELSE IF usageLimits.campaigns_used >= usageLimits.campaigns_limit
       THEN /\ showCampaignsLimitReached(usageLimits.campaigns_used,
                                         usageLimits.campaigns_limit)
            /\ Returned("checkCampaignsLimit", FALSE)
       ELSE Returned("checkCampaignsLimit", TRUE) /\ StoreUnchanged
    /\ HooksUnchanged

\* suggestedPlan.charAt(0).toUpperCase() + suggestedPlan.slice(1)
Capitalize(plan) ==
    CASE plan = "starter" -> "Starter"
      [] plan = "pro" -> "Pro"
      [] plan = "scale" -> "Scale"

\* the template string checkFeature puts in customMessage
featureMessage(featureName, suggestedPlan) ==
    <<featureName, " nao esta disponivel no seu plano atual. Faca upgrade para ",
      Capitalize(suggestedPlan), " ou superior.">>

\* checkFeature that blocks while no snapshot is loaded
checkFeature_failClosed(op, feature, featureName, suggestedPlan) ==
    /\ IF usageLimits = Null \/ ~usageLimits[feature]
       THEN /\ openUpgradeModal([reason |-> "general",
                                 featureName |-> featureName,
                                 suggestedPlan |-> suggestedPlan,
                                 customMessage |-> featureMessage(featureName, suggestedPlan)])
            /\ lastCall' = [op |-> op, feature |-> feature, ret |-> FALSE]
       ELSE lastCall' = [op |-> op, feature |-> feature, ret |-> TRUE] /\ StoreUnchanged
    /\ HooksUnchanged

\* checkFeature(feature, featureName, suggestedPlan), called under the name op
checkFeature(op, feature, featureName, suggestedPlan) ==
    /\ IF usageLimits = Null
       THEN lastCall' = [op |-> op, feature |-> feature, ret |-> TRUE] /\ StoreUnchanged
       ELSE IF ~usageLimits[feature]
       THEN /\ openUpgradeModal([reason |-> "general",
                                 featureName |-> featureName,
                                 suggestedPlan |-> suggestedPlan,
                                 customMessage |-> featureMessage(featureName, suggestedPlan)])
            /\ lastCall' = [op |-> op, feature |-> feature, ret |-> FALSE]
       ELSE lastCall' = [op |-> op, feature |-> feature, ret |-> TRUE] /\ StoreUnchanged
    /\ HooksUnchanged

CheckWhatsApp == checkFeature("checkWhatsApp", "whatsapp_enabled", "WhatsApp", "starter")

CheckWhatsAppOfficial ==
    checkFeature("checkWhatsAppOfficial", "whatsapp_official_api",
                 "API Oficial do WhatsApp", "pro")

CheckAdvancedFilters ==
    checkFeature("checkAdvancedFilters", "advanced_filters", "Filtros Avancados", "starter")

\* the user dismisses the modal (onOpenChange, "Agora nao", or choosing a plan)
CloseUpgradeModal ==
    /\ closeUpgradeModal
    /\ lastCall' = NoCall
    /\ HooksUnchanged

\* ------------------------------------------------------------ specification

\* authStore after login(user, accessToken, refreshToken)
LoggedIn == [accessToken |-> "access0", refreshToken |-> "refresh0", isAuthenticated |-> TRUE]

\* no request has been sent through the api instance
NoRequest ==
    [pc |-> "idle", retry |-> FALSE, token |-> "null", status |-> 0, data |-> Null,
     refreshes |-> 0, resends |-> 0, logouts |-> 0]

\* fetchUsageLimits has not been called yet
NoFetches ==
    [issued |-> 0, pending |-> {}, succeeded |-> {}, failed |-> {}, newest |-> Null,
     last |-> "none"]

\* the application shown, nothing chosen on the Upgrade page
NoPage ==
    [route |-> "app", selected |-> "null", offered |-> {}, planId |-> "null",
     toast |-> "none"]

\* refreshUser has not been called
NoRefreshUser == [pc |-> "idle"]

MaxReplacements == 1

\* names for the sockets that exist at one time: the one wsRef holds and the replaced
\* ones whose close event or reconnect timeout is outstanding; the name of a closed
\* socket is used again
SocketIds == 1..(MaxReplacements + 2)

\* a WebSocket that has not been constructed
NotCreated == [readyState |-> "none", code |-> 0]

\* useScrapingWebSocket before its effects run: the three refs null, the five useState
\* values, no socket constructed, no timer set
NoSocket ==
    [phase |-> "init",
     wsRef |-> 0, reconnectTimeoutRef |-> FALSE, pingIntervalRef |-> 0,
     isConnected |-> FALSE, progress |-> Null, leads |-> <<>>, completed |-> Null,
     error |-> "null",
     replaced |-> 0, sockets |-> [id \in SocketIds |-> NotCreated],
     timeouts |-> 0, intervals |-> {},
     received |-> <<>>, lastMessage |-> "none", pong |-> "none"]

MaxConfirms == 3

\* the options useConfirmDialog starts with when it is given none
DefaultOptions ==
    [title |-> "Confirmar ação", description |-> "Tem certeza que deseja continuar?"]

\* useConfirmDialog before confirm() is called: isOpen false, resolveRef null (0), no
\* promise handed out
NoDialog ==
    [isOpen |-> FALSE, options |-> DefaultOptions, resolveRef |-> 0, created |-> 0,
     promises |-> [id \in 1..MaxConfirms |-> "none"]]

\* useCanAddLeads before its first check: the three useState values, no request sent
NoCanAddCheck == [canAdd |-> TRUE, remaining |-> -1, loading |-> TRUE, request |-> "none"]

Init ==
    /\ user \in [plan_tier : PlanTier]
    /\ usageLimits = Null
    /\ isLoading = TRUE
    /\ isOpen = FALSE
    /\ context = Null
    /\ usage = Null
    /\ loading = TRUE
    /\ error = "null"
    /\ lastCall = NoCall
    /\ auth = LoggedIn
    /\ req = NoRequest
    /\ fetches = NoFetches
    /\ canAddLeads = NoCanAddCheck
    /\ page = NoPage
    /\ ws = NoSocket
    /\ dialog = NoDialog
    /\ me = NoRefreshUser

Next ==
    \/ FetchUsageLimitsOk
    \/ FetchUsageLimitsFail
    \/ CanCreateLead
    \/ CanCreateAgent
    \/ CanCreateCampaign
    \/ CheckLeadsLimit
    \/ CheckAgentsLimit
    \/ CheckCampaignsLimit
    \/ CheckWhatsApp
    \/ CheckWhatsAppOfficial
    \/ CheckAdvancedFilters
    \/ CloseUpgradeModal

\* the gates of usePlanLimits over the snapshot the hook holds, and the modal
Spec == Init /\ [][Next]_vars

\* -------------------------------------------- the upgrade store used directly

PaidPlans == {"starter", "pro", "scale"}

\* the contexts callers hand to openUpgradeModal: a reason, with or without a plan
OpenInputs ==
    {[reason |-> r] : r \in UpgradeReason}
        \cup {[reason |-> r, suggestedPlan |-> p] : r \in UpgradeReason, p \in PaidPlans}

FeatureNames == {"WhatsApp", "API Oficial do WhatsApp", "Filtros Avancados"}

OpenUpgradeModal ==
    /\ \E ctx \in OpenInputs : openUpgradeModal(ctx)
    /\ lastCall' = NoCall
    /\ HooksUnchanged

ShowLeadsLimitReached ==
    /\ \E p \in QuotaPairs : showLeadsLimitReached(p.used, p.limit)
    /\ lastCall' = NoCall
    /\ HooksUnchanged

ShowAgentsLimitReached ==
    /\ \E p \in QuotaPairs : showAgentsLimitReached(p.used, p.limit)
    /\ lastCall' = NoCall
    /\ HooksUnchanged

ShowCampaignsLimitReached ==
    /\ \E p \in QuotaPairs : showCampaignsLimitReached(p.used, p.limit)
    /\ lastCall' = NoCall
    /\ HooksUnchanged

ShowFeatureRequired ==
    /\ \E name \in FeatureNames, plan \in PaidPlans : showFeatureRequired(name, plan)
    /\ lastCall' = NoCall
    /\ HooksUnchanged

NextAdvisory ==
    \/ OpenUpgradeModal
    \/ ShowLeadsLimitReached
    \/ ShowAgentsLimitReached
    \/ ShowCampaignsLimitReached
    \/ ShowFeatureRequired
    \/ CloseUpgradeModal

\* the upgrade store driven through every reason, and the modal rendered from it
SpecAdvisory == Init /\ [][NextAdvisory]_vars

\* ------------------------------------------------------------ useLeadLimits

Max0(n) == IF n < 0 THEN 0 ELSE n

\* GET /lead-packages/usage as the system of record answers it: add-on leads extend
\* the plan's quota, the remaining count is clamped at zero, unlimited stays unlimited
ServerLeadSummary(limit, used, packages) ==
    [plan_monthly_limit |-> limit,
     leads_used_this_month |-> used,
     leads_from_packages |-> packages,
     total_remaining |->
         IF limit = Unlimited THEN Unlimited ELSE Max0(limit + packages - Max0(used)),
     is_limit_reached |-> ~(limit = Unlimited \/ Max0(used) < limit + packages)]

LeadSummaries ==
    {ServerLeadSummary(limit, used, packages) :
        limit \in LimitValues, used \in UsedValues, packages \in 0..MaxPackages}

\* err.response?.data?.detail of a failed request: absent, or a server text
ErrorDetails == {"undefined", "Internal Server Error"}

\* fetchUsage, the request answered
FetchUsageOk ==
    /\ \E summary \in LeadSummaries : usage' = summary
    /\ error' = "null"
    /\ loading' = FALSE
    /\ lastCall' = NoCall
    /\ UNCHANGED <<user, usageLimits, isLoading, isOpen, context>>
    /\ ApiUnchanged

\* fetchUsage, the request failed
FetchUsageFail ==
    /\ \E detail \in ErrorDetails :
          error' = IF detail = "undefined" THEN "Erro ao carregar uso de leads" ELSE detail
    /\ loading' = FALSE
    /\ lastCall' = NoCall
    /\ UNCHANGED <<user, usageLimits, isLoading, isOpen, context, usage>>
    /\ ApiUnchanged

\* what useLeadLimits returns
isLimitReached == IF usage = Null THEN FALSE ELSE usage.is_limit_reached

remainingLeads == IF usage = Null THEN 0 ELSE usage.total_remaining

NextLeads ==
    \/ FetchUsageLimitsOk
    \/ FetchUsageLimitsFail
    \/ FetchUsageOk
    \/ FetchUsageFail
    \/ CanCreateLead
    \/ CheckLeadsLimit
    \/ CloseUpgradeModal

\* the lead gate of usePlanLimits next to the usage summary of useLeadLimits
SpecLeads == Init /\ [][NextLeads]_vars

\* --------------------------------------------- checkFeature called directly

\* the display name a caller passes for each flag
DisplayName ==
    [whatsapp_enabled |-> "WhatsApp", whatsapp_official_api |-> "API Oficial do WhatsApp",
     advanced_filters |-> "Filtros Avancados", funnel_reports |-> "Relatorios de Funil",
     campaign_comparison |-> "Comparativo de Campanhas",
     crm_integration |-> "Integracao CRM", priority_support |-> "Suporte Prioritario",
     sso |-> "SSO"]

\* a component calls the checkFeature the hook returns, with a flag and a plan
CheckFeature ==
    \E feature \in FeatureFlags, suggestedPlan \in PaidPlans :
        checkFeature("checkFeature", feature, DisplayName[feature], suggestedPlan)

NextFeature ==
    \/ FetchUsageLimitsOk
    \/ FetchUsageLimitsFail
    \/ CheckFeature
    \/ CheckWhatsApp
    \/ CheckWhatsAppOfficial
    \/ CheckAdvancedFilters
    \/ CloseUpgradeModal

\* the feature gates of usePlanLimits, checkFeature with every flag and plan
SpecFeature == Init /\ [][NextFeature]_vars

\* ------------------------------------------------- api: response interceptor

\* the letters String.prototype.toLowerCase maps in the server's messages
UpperCase == "ABCDEFGHIJKLMNOPQRSTUVWXYZÇÃÁÉÍÓÚÂÊÔÕÀ"

LowerCase == "abcdefghijklmnopqrstuvwxyzçãáéíóúâêôõà"

toLowerChar(c) ==
    IF \E i \in 1..Len(UpperCase) : SubSeq(UpperCase, i, i) = c
    THEN LET i == CHOOSE j \in 1..Len(UpperCase) : SubSeq(UpperCase, j, j) = c
         IN  SubSeq(LowerCase, i, i)
    ELSE c

RECURSIVE toLowerCase(_)
toLowerCase(str) ==
    IF str = "" THEN ""
    ELSE toLowerChar(SubSeq(str, 1, 1)) \o toLowerCase(SubSeq(str, 2, Len(str)))

\* String.prototype.includes
includes(str, searchString) ==
    \E i \in 1..(Len(str) - Len(searchString) + 1) :
        SubSeq(str, i, i + Len(searchString) - 1) = searchString

\* ERROR_TO_UPGRADE_REASON, in the order Object.entries yields it
ERROR_TO_UPGRADE_REASON ==
    << [keyword |-> "limite de leads",         reason |-> "leads_limit"],
       [keyword |-> "limite de prospects",     reason |-> "leads_limit"],
       [keyword |-> "limite de agentes",       reason |-> "agents_limit"],
       [keyword |-> "limite de campanhas",     reason |-> "campaigns_limit"],
       [keyword |-> "whatsapp",                reason |-> "whatsapp"],
       [keyword |-> "api oficial",             reason |-> "whatsapp_official"],
       [keyword |-> "filtros avançados",       reason |-> "advanced_filters"],
       [keyword |-> "relatórios de funil",     reason |-> "funnel_reports"],
       [keyword |-> "funil",                   reason |-> "funnel_reports"],
       [keyword |-> "comparação de campanhas", reason |-> "campaign_comparison"],
       [keyword |-> "comparativo",             reason |-> "campaign_comparison"],
       [keyword |-> "integração crm",          reason |-> "crm_integration"],
       [keyword |-> "crm",                     reason |-> "crm_integration"],
       [keyword |-> "suporte prioritário",     reason |-> "priority_support"],
       [keyword |-> "sso",                     reason |-> "sso"] >>

\* the for loop of detectUpgradeReason, from entry i on
RECURSIVE detectFrom(_, _)
detectFrom(lowerMessage, i) ==
    IF i > Len(ERROR_TO_UPGRADE_REASON) THEN "general"
    ELSE IF includes(lowerMessage, ERROR_TO_UPGRADE_REASON[i].keyword)
    THEN ERROR_TO_UPGRADE_REASON[i].reason
    ELSE detectFrom(lowerMessage, i + 1)

detectUpgradeReason(errorMessage) == detectFrom(toLowerCase(errorMessage), 1)

\* the detail strings the server sends with a 403
ForbiddenDetails ==
    {"", "Acesso negado", "Você não tem permissão para esta ação",
     "Limite de agentes atingido. Faça upgrade do seu plano.",
     "LIMITE DE LEADS atingido",
     "Limite de prospects do mês atingido",
     "Limite de campanhas atingido para o plano Free",
     "WhatsApp não está disponível no seu plano",
     "API Oficial do WhatsApp não está disponível no seu plano",
     "API oficial indisponível no plano Starter",
     "Filtros Avançados requerem o plano Starter",
     "Relatórios de Funil requerem o plano Starter",
     "Comparação de Campanhas requer o plano Pro",
     "Integração CRM requer o plano Pro",
     "Suporte Prioritário disponível no plano Scale",
     "SSO disponível apenas no plano Scale"}

\* the bodies of a 403 response: no detail field, or a detail string
ForbiddenData == {Null} \cup [detail : ForbiddenDetails]

\* error.response.data?.detail || ''
detailOf(data) == IF data = Null THEN "" ELSE data.detail

\* authStore.setTokens
setTokens(accessToken, refreshToken) ==
    auth' = [accessToken |-> accessToken, refreshToken |-> refreshToken,
             isAuthenticated |-> TRUE]

\* authStore.logout
logout ==
    /\ user' = Null
    /\ auth' = [accessToken |-> "null", refreshToken |-> "null", isAuthenticated |-> FALSE]

\* what the interceptor and the auth store never touch
PlanHooksUnchanged ==
    UNCHANGED <<usageLimits, isLoading, usage, loading, error, lastCall, fetches,
                canAddLeads, page, ws, dialog, me>>

\* authStore.login, after the redirect to /login
Login ==
    /\ ~auth.isAuthenticated
    /\ user' \in [plan_tier : PlanTier]
    /\ auth' = LoggedIn
    /\ UNCHANGED <<req, isOpen, context>>
    /\ PlanHooksUnchanged

\* a component sends a request through the api instance
SendRequest ==
    /\ req.pc \in {"idle", "resolved", "rejected"}
    /\ req' = [NoRequest EXCEPT !.pc = "sent", !.token = auth.accessToken]
    /\ UNCHANGED <<user, auth, isOpen, context>>
    /\ PlanHooksUnchanged

\* the response handler: (response) => response
RespondOk ==
    /\ req.pc = "sent"
    /\ req' = [req EXCEPT !.pc = "resolved", !.status = 200]
    /\ UNCHANGED <<user, auth, isOpen, context>>
    /\ PlanHooksUnchanged

\* an error without config: rejected at once
RejectNoConfig ==
    /\ req.pc = "sent"
    /\ req' = [req EXCEPT !.pc = "rejected"]
    /\ UNCHANGED <<user, auth, isOpen, context>>
    /\ PlanHooksUnchanged

\* an error that is neither a 403 nor a 401 (status 0: no response at all)
RespondOther ==
    /\ req.pc = "sent"
    /\ \E status \in {0, 404, 500} : req' = [req EXCEPT !.pc = "rejected", !.status = status]
    /\ UNCHANGED <<user, auth, isOpen, context>>
    /\ PlanHooksUnchanged

\* the 403 branch rejecting without the modal when the response has no detail
Respond403_silent ==
    /\ req.pc = "sent"
    /\ \E data \in ForbiddenData :
          LET detail == detailOf(data)
              reason == detectUpgradeReason(detail)
          IN  /\ IF detail = ""
                 THEN UNCHANGED <<isOpen, context>>
                 ELSE openUpgradeModal([reason |-> reason, customMessage |-> detail,
                                        suggestedPlan |-> MINIMUM_PLAN_FOR_FEATURE[reason]])
              /\ req' = [req EXCEPT !.pc = "rejected", !.status = 403, !.data = data]
    /\ UNCHANGED <<user, auth>>
    /\ PlanHooksUnchanged

\* the 403 branch of the response interceptor
Respond403 ==
    /\ req.pc = "sent"
    /\ \E data \in ForbiddenData :
          LET detail == detailOf(data)
              reason == detectUpgradeReason(detail)
          IN  /\ openUpgradeModal([reason |-> reason, customMessage |-> detail,
                                   suggestedPlan |-> MINIMUM_PLAN_FOR_FEATURE[reason]])
              /\ req' = [req EXCEPT !.pc = "rejected", !.status = 403, !.data = data]
    /\ UNCHANGED <<user, auth>>
    /\ PlanHooksUnchanged

\* a 401 handled without looking at _retry: the token is refreshed every time
Respond401_retriesAgain ==
    /\ req.pc = "sent"
    /\ IF auth.refreshToken # "null"
       THEN /\ req' = [req EXCEPT !.pc = "refreshing", !.retry = TRUE, !.status = 401]
            /\ UNCHANGED <<user, auth>>
       ELSE /\ logout
            /\ req' = [req EXCEPT !.pc = "rejected", !.retry = TRUE, !.status = 401,
                                  !.logouts = IF req.retry THEN @ + 1 ELSE @ + 2]
    /\ UNCHANGED <<isOpen, context>>
    /\ PlanHooksUnchanged

\* a 401: the first one starts a token refresh when a refresh token is held, logs
\* out otherwise (twice, as _retry is already set when the second test is reached);
\* a 401 on the retried request logs out
Respond401 ==
    /\ req.pc = "sent"
    /\ IF ~req.retry /\ auth.refreshToken # "null"
       THEN /\ req' = [req EXCEPT !.pc = "refreshing", !.retry = TRUE, !.status = 401]
            /\ UNCHANGED <<user, auth>>
       ELSE /\ logout
            /\ req' = [req EXCEPT !.pc = "rejected", !.retry = TRUE, !.status = 401,
                                  !.logouts = IF req.retry THEN @ + 1 ELSE @ + 2]
    /\ UNCHANGED <<isOpen, context>>
    /\ PlanHooksUnchanged

\* the body of an answered POST /auth/refresh
RefreshResponses == {[access_token |-> "access1", refresh_token |-> "refresh1"]}

\* POST /auth/refresh answered: the tokens are stored and the request is sent again,
\* Authorization set to the new access token
RefreshOk ==
    /\ req.pc = "refreshing"
    /\ \E data \in RefreshResponses :
          /\ setTokens(data.access_token, data.refresh_token)
          /\ req' = [req EXCEPT !.pc = "sent", !.token = data.access_token, !.status = 0,
                                !.refreshes = @ + 1, !.resends = @ + 1]
    /\ UNCHANGED <<user, isOpen, context>>
    /\ PlanHooksUnchanged

\* a failed POST /auth/refresh that rejects without logging out
RefreshFail_noLogout ==
    /\ req.pc = "refreshing"
    /\ req' = [req EXCEPT !.pc = "rejected", !.refreshes = @ + 1]
    /\ UNCHANGED <<user, auth, isOpen, context>>
    /\ PlanHooksUnchanged

\* POST /auth/refresh failed: logout, and the promise rejects with the refresh error
RefreshFail ==
    /\ req.pc = "refreshing"
    /\ logout
    /\ req' = [req EXCEPT !.pc = "rejected", !.refreshes = @ + 1, !.logouts = @ + 1]
    /\ UNCHANGED <<isOpen, context>>
    /\ PlanHooksUnchanged

NextApi ==
    \/ Login
    \/ SendRequest
    \/ RespondOk
    \/ RejectNoConfig
    \/ RespondOther
    \/ Respond403
    \/ Respond401
    \/ RefreshOk
    \/ RefreshFail
    \/ CloseUpgradeModal

\* the api instance with its response interceptor, the auth store and the upgrade store
SpecApi == Init /\ [][NextApi]_vars

\* ------------------------------------------- usePlanLimits: refresh in flight

MaxFetches == 2

\* the quota part of the responses to a refresh: the lead quota varies, agents and
\* campaigns are unlimited
RefreshQuotas ==
    {q \in ResponseQuotas :
        \A r \in Resources \ {"leads"} : q[r] = [limit |-> Unlimited, used |-> 0]}

\* fetchUsageLimits called (by the mount effect or as refetch) up to the await:
\* setIsLoading(true) and the GET is sent, whatever is already in flight
StartFetch ==
    /\ fetches.issued < MaxFetches
    /\ isLoading' = TRUE
    /\ fetches' = [fetches EXCEPT !.issued = @ + 1,
                                  !.pending = @ \cup {fetches.issued + 1},
                                  !.newest = Null]
    /\ lastCall' = NoCall
    /\ UNCHANGED <<user, usageLimits, isOpen, context, usage, loading, error, auth, req,
                   canAddLeads, page, ws, dialog, me>>

\* a rejected GET that also drops the snapshot held
FetchReject_clears ==
    /\ \E id \in fetches.pending :
          fetches' = [fetches EXCEPT !.pending = @ \ {id}, !.failed = @ \cup {id},
                                    !.last = "failed"]
    /\ usageLimits' = Null
    /\ isLoading' = FALSE
    /\ lastCall' = NoCall
    /\ UNCHANGED <<user, isOpen, context, usage, loading, error, auth, req,
                   canAddLeads, page, ws, dialog, me>>

\* the GET of call id answered: setUsageLimits(response.data), then the finally block
FetchResolve ==
    /\ \E id \in fetches.pending, q \in RefreshQuotas :
          /\ usageLimits' = UsageLimitsOf(getPlanTier, q)
          /\ fetches' = [fetches EXCEPT !.pending = @ \ {id}, !.succeeded = @ \cup {id},
                                        !.newest = IF id = fetches.issued
                                                   THEN UsageLimitsOf(getPlanTier, q)
                                                   ELSE @,
                                        !.last = "ok"]
    /\ isLoading' = FALSE
    /\ lastCall' = NoCall
    /\ UNCHANGED <<user, isOpen, context, usage, loading, error, auth, req,
                   canAddLeads, page, ws, dialog, me>>

\* the GET of call id rejected: the catch block logs, then the finally block
FetchReject ==
    /\ \E id \in fetches.pending :
          fetches' = [fetches EXCEPT !.pending = @ \ {id}, !.failed = @ \cup {id},
                                    !.last = "failed"]
    /\ isLoading' = FALSE
    /\ lastCall' = NoCall
    /\ UNCHANGED <<user, usageLimits, isOpen, context, usage, loading, error, auth, req,
                   canAddLeads, page, ws, dialog, me>>

NextRefresh ==
    \/ StartFetch
    \/ FetchResolve
    \/ FetchReject

\* usePlanLimits with each fetchUsageLimits call split at its await
SpecRefresh == Init /\ [][NextRefresh]_vars

\* ------------------------------------------------- useCanAddLeads, fail open

\* the bodies of GET /lead-packages/check-limit
CheckLimitResponses ==
    {[can_add_leads |-> TRUE, remaining |-> -1],
     [can_add_leads |-> TRUE, remaining |-> 1],
     [can_add_leads |-> FALSE, remaining |-> 0]}

CanAddUnchanged ==
    UNCHANGED <<user, usageLimits, isLoading, isOpen, context, usage, loading, error,
                auth, req, fetches, page, ws, dialog, me>>

\* check() up to the await: setLoading(true) and the GET is sent
CanAddCheckStart ==
    /\ canAddLeads.request # "pending"
    /\ canAddLeads' = [canAddLeads EXCEPT !.loading = TRUE, !.request = "pending"]
    /\ lastCall' = NoCall
    /\ CanAddUnchanged

\* check(), the GET answered
CanAddCheckOk ==
    /\ canAddLeads.request = "pending"
    /\ \E data \in CheckLimitResponses :
          canAddLeads' = [canAdd |-> data.can_add_leads, remaining |-> data.remaining,
                          loading |-> FALSE, request |-> "ok"]
    /\ lastCall' = NoCall
    /\ CanAddUnchanged

\* check(), the GET rejected: setCanAdd(true)
CanAddCheckFail ==
    /\ canAddLeads.request = "pending"
    /\ canAddLeads' = [canAddLeads EXCEPT !.canAdd = TRUE, !.loading = FALSE,
                                          !.request = "failed"]
    /\ lastCall' = NoCall
    /\ CanAddUnchanged

NextFailOpen ==
    \/ StartFetch
    \/ FetchResolve
    \/ FetchReject
    \/ CanCreateLead
    \/ CanCreateAgent
    \/ CanCreateCampaign
    \/ CheckLeadsLimit
    \/ CheckAgentsLimit
    \/ CheckCampaignsLimit
    \/ CloseUpgradeModal
    \/ CanAddCheckStart
    \/ CanAddCheckOk
    \/ CanAddCheckFail

\* the quota gates of both hooks with their requests failing or answered
SpecFailOpen == Init /\ [][NextFailOpen]_vars

\* ------------------------------------------- useScrapingWebSocket: lifecycle
\* ws.wsRef and ws.pingIntervalRef hold a socket id (0 for null): a ping interval is
\* named by the socket whose onopen set it, and -1 is the handle of an interval that
\* was cleared.  ws.reconnectTimeoutRef tells whether the timeout the ref holds is
\* still pending; ws.timeouts counts the pending reconnect timeouts.  ws.intervals is
\* the set of ping intervals that still send: not cleared, their socket not closed
\* (the callback of an interval whose socket is closed does nothing).

SocketUnchanged ==
    UNCHANGED <<user, usageLimits, isLoading, isOpen, context, usage, loading, error,
                lastCall, auth, req, fetches, canAddLeads, page, dialog, me>>

\* WebSocket.close(code) on socket id: a socket still connecting fails with 1006, an
\* open one closes with the code given, 1005 when none is given (code 0 here)
close(w, id, code) ==
    IF id = 0 THEN w
    ELSE IF w.sockets[id].readyState = "connecting"
    THEN [w EXCEPT !.sockets[id] = [readyState |-> "closing", code |-> 1006]]
    ELSE IF w.sockets[id].readyState = "open"
    THEN [w EXCEPT !.sockets[id] =
                       [readyState |-> "closing", code |-> IF code = 0 THEN 1005 ELSE code]]
    ELSE w

\* connect(): closes the socket wsRef holds, constructs a new one and stores it
connect(w) ==
    IF auth.accessToken = "null" THEN w
    ELSE LET c == close(w, w.wsRef, 0)
             free == {i \in SocketIds : c.sockets[i].readyState \in {"none", "closed"}}
             id == CHOOSE i \in free : \A j \in free : i <= j
         IN  [c EXCEPT !.wsRef = id,
                       !.sockets[id] = [readyState |-> "connecting", code |-> 0]]

\* the four setters reconnect() and the campaignId effect call
resetState(w) ==
    [w EXCEPT !.leads = <<>>, !.progress = Null, !.completed = Null, !.error = "null",
              !.received = <<>>]

\* the cleanup of the connect effect
cleanup(w) ==
    LET t == IF w.reconnectTimeoutRef
             THEN [w EXCEPT !.timeouts = @ - 1, !.reconnectTimeoutRef = FALSE]
             ELSE w
        i == [t EXCEPT !.intervals = @ \ {t.pingIntervalRef},
                       !.pingIntervalRef = IF @ = 0 THEN 0 ELSE -1]
    IN  close(i, i.wsRef, 1000)

\* ws.onclose with event.code = code
onclose(w, code) ==
    LET c == [w EXCEPT !.isConnected = FALSE,
                       !.intervals = @ \ {w.pingIntervalRef},
                       !.pingIntervalRef = 0]
    IN  IF code # 1000
        THEN [c EXCEPT !.timeouts = @ + 1, !.reconnectTimeoutRef = TRUE]
        ELSE c

\* every step that is not a message leaves no message as the last one handled
step(w) == [w EXCEPT !.lastMessage = "none", !.pong = "none"]

\* the component mounts: the connect effect and the campaignId effect run
Mount ==
    /\ ws.phase = "init"
    /\ ws' = step(resetState(connect([ws EXCEPT !.phase = "mounted"])))
    /\ SocketUnchanged

\* the handshake of socket id completes: ws.onopen
SocketOpen ==
    /\ \E id \in SocketIds :
          /\ ws.sockets[id].readyState = "connecting"
          /\ ws' = step([ws EXCEPT !.sockets[id].readyState = "open",
                                   !.isConnected = TRUE, !.error = "null",
                                   !.intervals = @ \cup {id}, !.pingIntervalRef = id])
    /\ SocketUnchanged

\* the connection of socket id cannot be established: ws.onerror, then the close
ConnectFail ==
    /\ \E id \in SocketIds :
          /\ ws.sockets[id].readyState = "connecting"
          /\ ws' = step([ws EXCEPT !.sockets[id] = [readyState |-> "closing", code |-> 1006],
                                   !.error = "Erro de conexão WebSocket"])
    /\ SocketUnchanged

\* the server ends the open connection of socket id, cleanly (1000) or not (1006, with
\* ws.onerror)
ServerClose ==
    /\ \E id \in SocketIds, code \in {1000, 1006} :
          /\ ws.sockets[id].readyState = "open"
          /\ ws' = step([ws EXCEPT !.sockets[id] = [readyState |-> "closing", code |-> code],
                                   !.error = IF code = 1006
                                             THEN "Erro de conexão WebSocket" ELSE @])
    /\ SocketUnchanged

\* the close event of socket id is dispatched: ws.onclose
CloseDelivered ==
    /\ \E id \in SocketIds :
          /\ ws.sockets[id].readyState = "closing"
          /\ ws' = step(onclose([ws EXCEPT !.sockets[id] = [readyState |-> "closed",
                                                            code |-> 0],
                                           !.intervals = @ \ {id}],
                                ws.sockets[id].code))
    /\ SocketUnchanged

\* a reconnect timeout fires, the oldest first: connect()
TimeoutFires ==
    /\ ws.timeouts > 0
    /\ ws' = step(connect([ws EXCEPT !.timeouts = @ - 1,
                                     !.reconnectTimeoutRef =
                                         IF ws.timeouts = 1 THEN FALSE ELSE @]))
    /\ SocketUnchanged

\* the component calls reconnect()
Reconnect ==
    /\ ws.phase = "mounted"
    /\ ws.replaced < MaxReplacements
    /\ ws' = step(connect(resetState([ws EXCEPT !.replaced = @ + 1])))
    /\ SocketUnchanged

\* the campaignId prop changes: cleanup of the connect effect, connect() again, and the
\* campaignId effect
ChangeCampaign ==
    /\ ws.phase = "mounted"
    /\ ws.replaced < MaxReplacements
    /\ ws' = step(resetState(connect(cleanup([ws EXCEPT !.replaced = @ + 1]))))
    /\ SocketUnchanged

\* the component unmounts: cleanup of the connect effect
Unmount ==
    /\ ws.phase = "mounted"
    /\ ws' = step(cleanup([ws EXCEPT !.phase = "unmounted"]))
    /\ SocketUnchanged

NextSocket ==
    \/ Mount
    \/ SocketOpen
    \/ ConnectFail
    \/ ServerClose
    \/ CloseDelivered
    \/ TimeoutFires
    \/ Reconnect
    \/ ChangeCampaign
    \/ Unmount

\* the sockets and timers of useScrapingWebSocket
SpecSocket == Init /\ [][NextSocket]_vars

\* ------------------------------------------- useScrapingWebSocket: messages

MaxLeads == 2

\* event.data of the messages the server sends, parsed; "malformed" is a text
\* JSON.parse throws on
ServerMessages ==
    {[type |-> "ping"], [type |-> "pong"], [type |-> "connected"],
     [type |-> "scraping_progress", found |-> 1],
     [type |-> "lead_found", lead |-> "lead a"],
     [type |-> "lead_found", lead |-> "lead b"],
     [type |-> "scraping_completed", total_found |-> 1],
     [type |-> "scraping_error", error |-> "scraping failed"],
     [type |-> "limit_reached", message |-> "limit reached"],
     [type |-> "malformed"]}

\* ws.onmessage putting the new lead in front of the list
onmessage_prepends(w, id, data) ==
    LET m == [w EXCEPT !.lastMessage = data.type, !.pong = "none"]
    IN  IF data.type = "lead_found"
        THEN [m EXCEPT !.leads = <<data.lead>> \o @, !.received = Append(@, data.lead)]
        ELSE m

\* ws.onmessage of socket id with the message data
onmessage(w, id, data) ==
    LET m == [w EXCEPT !.lastMessage = data.type, !.pong = "none"]
    IN  CASE data.type = "malformed" -> m
          [] data.type \in {"ping", "pong"} ->
                IF data.type = "ping" /\ w.sockets[id].readyState = "open"
                THEN [m EXCEPT !.pong = "sent"]
                ELSE m
          [] data.type = "connected" -> m
          [] data.type = "scraping_progress" -> [m EXCEPT !.progress = data]
          [] data.type = "lead_found" ->
                [m EXCEPT !.leads = Append(@, data.lead), !.received = Append(@, data.lead)]
          [] data.type = "scraping_completed" -> [m EXCEPT !.completed = data]
          [] data.type = "scraping_error" -> [m EXCEPT !.error = data.error]
          [] data.type = "limit_reached" -> [m EXCEPT !.error = data.message]

\* a message arrives on socket id: the browser dispatches it while the socket is open
Message ==
    /\ \E id \in SocketIds, data \in ServerMessages :
          /\ ws.sockets[id].readyState = "open"
          /\ data.type = "lead_found" => Len(ws.leads) < MaxLeads
          /\ ws' = onmessage(ws, id, data)
    /\ SocketUnchanged

NextMessages ==
    \/ Mount
    \/ SocketOpen
    \/ Message
    \/ CloseDelivered
    \/ TimeoutFires
    \/ Reconnect
    \/ ChangeCampaign

\* the hook reads the access token only: one user stands for all
InitMessages == Init /\ user = [plan_tier |-> "free"]

\* the mounted hook receiving the server's messages
SpecMessages == InitMessages /\ [][NextMessages]_vars

NextSocketFair ==
    \/ Mount
    \/ SocketOpen
    \/ CloseDelivered
    \/ TimeoutFires
    \/ Reconnect
    \/ ChangeCampaign

\* the hook kept mounted, with a server that accepts every connection and drops none:
\* the effects run, handshakes complete, close events are dispatched and timeouts fire
SpecSocketFair ==
    /\ Init
    /\ [][NextSocketFair]_vars
    /\ WF_vars(Mount)
    /\ WF_vars(SocketOpen)
    /\ WF_vars(CloseDelivered)
    /\ WF_vars(TimeoutFires)

\* --------------------------------------------------------- useConfirmDialog

DialogUnchanged ==
    UNCHANGED <<user, usageLimits, isLoading, isOpen, context, usage, loading, error,
                lastCall, auth, req, fetches, canAddLeads, page, ws, me>>

\* the customOptions callers pass to confirm()
CustomOptions == {[title |-> "Excluir agente"], [description |-> "Esta ação não pode ser desfeita."]}

\* { ...prev, ...customOptions }
mergeOptions(prev, customOptions) ==
    [f \in DOMAIN prev |-> IF f \in DOMAIN customOptions THEN customOptions[f] ELSE prev[f]]

\* resolveRef?.(value): settles the promise the ref holds, if it is still pending
resolve(d, value) ==
    IF d.resolveRef # 0 /\ d.promises[d.resolveRef] = "pending"
    THEN [d EXCEPT !.promises[d.resolveRef] = value]
    ELSE d

\* confirm(customOptions): a new promise, its resolve stored in resolveRef, dialog opened
Confirm ==
    /\ dialog.created < MaxConfirms
    /\ \E customOptions \in CustomOptions \cup {Null} :
          LET id == dialog.created + 1
          IN  dialog' = [dialog EXCEPT
                            !.options = IF customOptions = Null THEN @
                                        ELSE mergeOptions(@, customOptions),
                            !.resolveRef = id,
                            !.created = id,
                            !.promises[id] = "pending",
                            !.isOpen = TRUE]
    /\ DialogUnchanged

\* the action button: handleConfirm
ClickConfirm ==
    /\ dialog.isOpen
    /\ dialog' = [resolve(dialog, "true") EXCEPT !.isOpen = FALSE]
    /\ DialogUnchanged

\* the cancel button: handleCancel, then onOpenChange(false)
ClickCancel ==
    /\ dialog.isOpen
    /\ dialog' = [resolve(dialog, "false") EXCEPT !.isOpen = FALSE]
    /\ DialogUnchanged

\* the dialog dismissed by the Escape key: onOpenChange(false), that is setIsOpen(false)
Dismiss ==
    /\ dialog.isOpen
    /\ dialog' = [dialog EXCEPT !.isOpen = FALSE]
    /\ DialogUnchanged

NextDialog ==
    \/ Confirm
    \/ ClickConfirm
    \/ ClickCancel
    \/ Dismiss

\* useConfirmDialog and the ConfirmDialog it renders
SpecDialog == Init /\ [][NextDialog]_vars

\* ------------------------------------------------ auth store: logout races

AuthUnchanged ==
    UNCHANGED <<usageLimits, isLoading, isOpen, context, usage, loading, error, lastCall,
                fetches, canAddLeads, ws, dialog>>

\* AppLayout.handleLogout: logout(), navigate('/login')
UserLogout ==
    /\ auth.isAuthenticated
    /\ logout
    /\ page' = [NoPage EXCEPT !.route = "login"]
    /\ UNCHANGED <<req, me>>
    /\ AuthUnchanged

\* refreshUser up to its await: returns at once without an access token
RefreshUserStart ==
    /\ me.pc = "idle"
    /\ me' = IF auth.accessToken = "null" THEN me ELSE [pc |-> "pending"]
    /\ UNCHANGED <<user, auth, req, page>>
    /\ AuthUnchanged

\* GET /auth/me answered with response.ok: set({ user })
RefreshUserOk ==
    /\ me.pc = "pending"
    /\ user' \in [plan_tier : PlanTier]
    /\ me' = [pc |-> "idle"]
    /\ UNCHANGED <<auth, req, page>>
    /\ AuthUnchanged

\* GET /auth/me answered with an error status, or failed: the store is left alone
RefreshUserFail ==
    /\ me.pc = "pending"
    /\ me' = [pc |-> "idle"]
    /\ UNCHANGED <<user, auth, req, page>>
    /\ AuthUnchanged

NextAuth ==
    \/ Login
    \/ UserLogout
    \/ SendRequest
    \/ RespondOk
    \/ Respond401
    \/ RefreshOk
    \/ RefreshFail
    \/ RefreshUserStart
    \/ RefreshUserOk
    \/ RefreshUserFail

\* the auth store with the user logging out while requests are in flight
SpecAuth == Init /\ [][NextAuth]_vars

\* ------------------------------------------- choosing a plan: modal and page

\* the plan ids handleSelectPlan is called with: the PLANS cards, and ids not in planOrder
PlanIds == PlanTier \cup {"enterprise", ""}

\* Upgrade.handleSelectPlan accepting the plan the user already has
handleSelectPlan_strict(planId) ==
    LET currentIndex == indexOf(planOrder, getPlanTier)
        planIndex == indexOf(planOrder, planId)
    IN  IF planIndex < currentIndex
        THEN "Plano não disponível"
        ELSE "Redirecionando..."

\* Upgrade.handleSelectPlan: the title of the toast it shows
handleSelectPlan(planId) ==
    LET currentIndex == indexOf(planOrder, getPlanTier)
        planIndex == indexOf(planOrder, planId)
    IN  IF planIndex <= currentIndex
        THEN "Plano não disponível"
        ELSE "Redirecionando..."

\* UpgradeModal.handleSelectPlan, from the suggested plan's button or a listed plan's:
\* closeUpgradeModal(), navigate(`/upgrade?selected=${plan}`)
ModalSelectPlan ==
    /\ isOpen
    /\ context # Null
    /\ \E plan \in UpgradeModal.availablePlans \cup {UpgradeModal.suggestedPlan} :
          page' = [route |-> "upgrade", selected |-> plan,
                   offered |-> UpgradeModal.availablePlans, planId |-> "null",
                   toast |-> "none"]
    /\ closeUpgradeModal
    /\ lastCall' = NoCall
    /\ UNCHANGED <<user, usageLimits, isLoading, usage, loading, error, auth, req,
                   fetches, canAddLeads, ws, dialog, me>>

\* the user opens /upgrade from the navigation
NavigateUpgrade ==
    /\ page.route = "app"
    /\ page' = [NoPage EXCEPT !.route = "upgrade"]
    /\ UNCHANGED <<user, usageLimits, isLoading, isOpen, context, usage, loading, error,
                   lastCall, auth, req, fetches, canAddLeads, ws, dialog, me>>

\* a click on a plan card of the Upgrade page
PageSelectPlan ==
    /\ page.route = "upgrade"
    /\ \E planId \in PlanIds :
          page' = [page EXCEPT !.planId = planId, !.toast = handleSelectPlan(planId)]
    /\ UNCHANGED <<user, usageLimits, isLoading, isOpen, context, usage, loading, error,
                   lastCall, auth, req, fetches, canAddLeads, ws, dialog, me>>

NextUpgrade ==
    \/ OpenUpgradeModal
    \/ CloseUpgradeModal
    \/ ModalSelectPlan
    \/ NavigateUpgrade
    \/ PageSelectPlan

\* the upgrade modal and the Upgrade page it navigates to
SpecUpgrade == Init /\ [][NextUpgrade]_vars

\* ------------------------------------------------------------------ claims

\* position of a tier in free < starter < pro < scale
ordinal(tier) == CHOOSE i \in 0..3 : planOrder[i + 1] = tier

MaxOf(a, b) == IF a >= b THEN a ELSE b

\* what a blocking gate call was about: the catalog quota or the feature flag
BlockedQuota ==
    [checkLeadsLimit |-> "prospects_per_month", checkAgentsLimit |-> "agents",
     checkCampaignsLimit |-> "campaigns"]

Blocked == lastCall.op # "none" /\ lastCall.ret = FALSE

\* C1: for a tier below scale, the tier the modal recommends after a gate blocked
\* unlocks what was blocked: the blocked feature's flag is true at that tier, the
\* blocked quota is larger there than at the current tier, or unlimited.
C1_SuggestionUnlocksBlock ==
    (getPlanTier # "scale" /\ context # Null /\ Blocked) =>
        LET recommended == UpgradeModal.suggestedPlan
        IN  IF lastCall.op \in DOMAIN BlockedQuota
            THEN LET q == BlockedQuota[lastCall.op]
                 IN  \/ PLAN_FEATURES[recommended][q] = Unlimited
                     \/ PLAN_FEATURES[recommended][q] > getPlanFeatures[q]
            ELSE PLAN_FEATURES[recommended][lastCall.feature] = TRUE

\* C2: the plan suggested for the open context is never below the current tier and
\* never below the minimum plan of the context's reason.
C2_SuggestionNeverRegresses ==
    context # Null =>
        /\ ordinal(UpgradeModal.suggestedPlan) >= ordinal(getPlanTier)
        /\ ordinal(UpgradeModal.suggestedPlan)
               >= ordinal(MINIMUM_PLAN_FOR_FEATURE[context.reason])

C2_Witness ==
    /\ context # Null
    /\ getPlanTier = "starter"
    /\ context.reason = "sso"
    /\ UpgradeModal.suggestedPlan = "scale"

\* C3: below scale the suggested plan is whichever of the next tier and the reason's
\* minimum plan has the higher ordinal; pro blocked on priority_support gets scale,
\* and free blocked on whatsapp_official is skipped ahead to pro.
C3_SuggestionIsHigherOfNextAndMinimum ==
    (context # Null /\ getPlanTier # "scale") =>
        LET suggested == UpgradeModal.suggestedPlan
            next == getNextPlan(getPlanTier)
            minimum == MINIMUM_PLAN_FOR_FEATURE[context.reason]
        IN  /\ suggested \in {next, minimum}
            /\ ordinal(suggested) = MaxOf(ordinal(next), ordinal(minimum))
            /\ (getPlanTier = "pro" /\ context.reason = "priority_support")
                   => suggested = "scale"
            /\ (getPlanTier = "free" /\ context.reason = "whatsapp_official")
                   => suggested = "pro"

C3_Witness ==
    /\ context # Null
    /\ getPlanTier = "free"
    /\ context.reason = "whatsapp_official"
    /\ UpgradeModal.suggestedPlan = "pro"

\* C4: getNextPlan of scale is null, of a lower tier the tier right after it, and at
\* scale the suggested plan is scale whatever the reason.
C4_TopTierTerminal ==
    /\ getPlanTier = "scale" => getNextPlan(getPlanTier) = "null"
    /\ getPlanTier # "scale" =>
           /\ getNextPlan(getPlanTier) \in PlanTier
           /\ ordinal(getNextPlan(getPlanTier)) = ordinal(getPlanTier) + 1
    /\ (getPlanTier = "scale" /\ context # Null) => UpgradeModal.suggestedPlan = "scale"

C4_Witness ==
    /\ getPlanTier = "scale"
    /\ context # Null
    /\ context.reason = "leads_limit"
    /\ UpgradeModal.suggestedPlan = "scale"

\* the entitlement hi is never stricter than the entitlement lo
NotStricter(lo, hi) ==
    /\ \A f \in FeatureFlags : lo[f] => hi[f]
    /\ \A q \in QuotaNames :
          /\ hi[q] = Unlimited \/ (lo[q] # Unlimited /\ hi[q] >= lo[q])
          /\ lo[q] = Unlimited => hi[q] = Unlimited

\* C5: the catalog is monotone: every tier above the user's tier has every flag the
\* user's plan has, and quotas that are unlimited or at least as large.
C5_CatalogMonotone ==
    \A t2 \in PlanTier :
        ordinal(t2) > ordinal(getPlanTier) => NotStricter(getPlanFeatures, PLAN_FEATURES[t2])

C5_Witness ==
    /\ getPlanTier = "starter"
    /\ getPlanFeatures.funnel_reports
    /\ PLAN_FEATURES["pro"].funnel_reports
    /\ isOpen

\* the flag or the quota a reason stands for
ReasonFlag ==
    [whatsapp |-> "whatsapp_enabled", whatsapp_official |-> "whatsapp_official_api",
     advanced_filters |-> "advanced_filters", funnel_reports |-> "funnel_reports",
     campaign_comparison |-> "campaign_comparison", crm_integration |-> "crm_integration",
     priority_support |-> "priority_support", sso |-> "sso"]

ReasonQuota ==
    [leads_limit |-> "prospects_per_month", agents_limit |-> "agents",
     campaigns_limit |-> "campaigns"]

\* the tier qualifies for the reason: it has the flag, or more quota than free
Qualifies(tier, reason) ==
    IF reason \in DOMAIN ReasonFlag
    THEN PLAN_FEATURES[tier][ReasonFlag[reason]]
    ELSE LET q == ReasonQuota[reason]
         IN  PLAN_FEATURES[tier][q] = Unlimited
                 \/ PLAN_FEATURES[tier][q] > PLAN_FEATURES["free"][q]

LowestQualifyingTier(reason) ==
    CHOOSE t \in PlanTier :
        /\ Qualifies(t, reason)
        /\ \A u \in PlanTier : Qualifies(u, reason) => ordinal(u) >= ordinal(t)

\* C6: the minimum plan of the open context's reason is the lowest tier that has the
\* reason's flag, or for a quota reason the lowest tier with more quota than free.
C6_MinimumPlanIsLowestQualifying ==
    (context # Null /\ context.reason # "general") =>
        MINIMUM_PLAN_FOR_FEATURE[context.reason] = LowestQualifyingTier(context.reason)

\* the snapshot fields each silent check reads
CanCreateFields ==
    [canCreateLead |-> [limit |-> "leads_limit", used |-> "leads_used"],
     canCreateAgent |-> [limit |-> "agents_limit", used |-> "agents_used"],
     canCreateCampaign |-> [limit |-> "campaigns_limit", used |-> "campaigns_used"]]

\* C7: with a loaded snapshot and no add-on quota, canCreateLead, canCreateAgent and
\* canCreateCampaign return true iff the limit is -1 or used < limit.
C7_CanCreateIffQuota ==
    (usageLimits # Null /\ usage = Null /\ lastCall.op \in DOMAIN CanCreateFields) =>
        LET limit == usageLimits[CanCreateFields[lastCall.op].limit]
            used == usageLimits[CanCreateFields[lastCall.op].used]
        IN  /\ lastCall.ret = (limit = Unlimited \/ used < limit)
            /\ (limit # Unlimited /\ used = limit) => lastCall.ret = FALSE
            /\ (limit # Unlimited /\ used = limit - 1) => lastCall.ret = TRUE
            /\ limit = Unlimited => lastCall.ret = TRUE

C7_Witness ==
    /\ usageLimits # Null
    /\ lastCall.op = "canCreateLead"
    /\ usageLimits.leads_limit > 0
    /\ usageLimits.leads_used = usageLimits.leads_limit
    /\ lastCall.ret = FALSE

\* C8: add-on leads extend the base quota in the lead gate: when both hooks hold the
\* same account's numbers and used < limit + add-on, canCreateLead and checkLeadsLimit
\* allow the action and the remaining count is limit + add-on - used.
C8_AddOnExtendsLeadGate ==
    (/\ usageLimits # Null
     /\ usage # Null
     /\ lastCall.op \in {"canCreateLead", "checkLeadsLimit"}
     /\ usageLimits.leads_limit = usage.plan_monthly_limit
     /\ usageLimits.leads_used = usage.leads_used_this_month
     /\ usage.plan_monthly_limit # Unlimited
     /\ usage.leads_used_this_month >= 0
     /\ usage.leads_used_this_month < usage.plan_monthly_limit + usage.leads_from_packages)
        => /\ lastCall.ret = TRUE
           /\ remainingLeads = usage.plan_monthly_limit + usage.leads_from_packages
                                   - usage.leads_used_this_month

\* the snapshot fields and the reason of each check that opens the modal
CheckLimitFields ==
    [checkLeadsLimit |->
        [limit |-> "leads_limit", used |-> "leads_used", reason |-> "leads_limit"],
     checkAgentsLimit |->
        [limit |-> "agents_limit", used |-> "agents_used", reason |-> "agents_limit"],
     checkCampaignsLimit |->
        [limit |-> "campaigns_limit", used |-> "campaigns_used",
         reason |-> "campaigns_limit"]]

\* C9: with a loaded snapshot, a check*Limit call returns false exactly when the limit
\* is finite and used >= limit, and then the store is open with the matching reason,
\* currentValue = used and limitValue = limit; otherwise it returns true and leaves
\* the upgrade store as it was.
C9_CheckLimitContract ==
    [][(usageLimits # Null /\ lastCall'.op \in DOMAIN CheckLimitFields) =>
          LET f == CheckLimitFields[lastCall'.op]
              limit == usageLimits[f.limit]
              used == usageLimits[f.used]
          IN  IF limit # Unlimited /\ used >= limit
              THEN /\ lastCall'.ret = FALSE
                   /\ isOpen' = TRUE
                   /\ context' # Null
                   /\ context'.reason = f.reason
                   /\ context'.currentValue = used
                   /\ context'.limitValue = limit
              ELSE /\ lastCall'.ret = TRUE
                   /\ isOpen' = isOpen
                   /\ context' = context]_vars

C9_Witness ==
    /\ usageLimits # Null
    /\ lastCall.op = "checkLeadsLimit"
    /\ lastCall.ret = FALSE
    /\ isOpen
    /\ context = [reason |-> "leads_limit", currentValue |-> usageLimits.leads_used,
                  limitValue |-> usageLimits.leads_limit, suggestedPlan |-> "starter"]
    /\ usageLimits.leads_used > usageLimits.leads_limit

\* C10: when a quota check blocks, the suggestedPlan of the context it opens is the
\* entry of MINIMUM_PLAN_FOR_FEATURE for the context's reason.
C10_BlockedQuotaSuggestsTableEntry ==
    (context # Null /\ lastCall.op \in DOMAIN CheckLimitFields /\ lastCall.ret = FALSE) =>
        context.suggestedPlan = MINIMUM_PLAN_FOR_FEATURE[context.reason]

FeatureCalls == {"checkFeature", "checkWhatsApp", "checkWhatsAppOfficial", "checkAdvancedFilters"}

QuotaCalls == (DOMAIN CanCreateFields) \cup (DOMAIN CheckLimitFields)

LowestTierWithFlag(flag) ==
    CHOOSE t \in PlanTier :
        /\ PLAN_FEATURES[t][flag]
        /\ \A u \in PlanTier : PLAN_FEATURES[u][flag] => ordinal(u) >= ordinal(t)

\* C11: with a loaded snapshot, checkFeature and its wrappers return true iff the
\* feature's flag is true in the snapshot, and when they block, the context they open
\* carries as suggestedPlan the lowest tier that has the feature.
C11_FeatureGateSuggestsMinimumTier ==
    (usageLimits # Null /\ lastCall.op \in FeatureCalls) =>
        /\ lastCall.ret = usageLimits[lastCall.feature]
        /\ ~lastCall.ret =>
               /\ isOpen
               /\ context # Null
               /\ context.suggestedPlan = LowestTierWithFlag(lastCall.feature)

\* C12: a gate call never changes the usage snapshot; the snapshot changes only in a
\* step in which a refresh from the server succeeds.
C12_GatesLeaveSnapshot ==
    [][/\ lastCall'.op # "none" => usageLimits' = usageLimits
       /\ usageLimits' # usageLimits =>
              /\ lastCall' = NoCall
              /\ isLoading' = FALSE
              /\ usageLimits' # Null
              /\ usageLimits'.plan_tier = getPlanTier
              /\ isOpen' = isOpen
              /\ context' = context]_vars

C12_Witness ==
    /\ usageLimits # Null
    /\ lastCall.op = "checkAgentsLimit"
    /\ lastCall.ret = TRUE
    /\ usageLimits.agents_limit = 1
    /\ usageLimits.agents_used = 0

\* C13: while no snapshot is loaded, every gate call returns true and leaves the
\* upgrade store as it was, closed.
C13_FailOpenBeforeLoad ==
    [][(usageLimits = Null /\ lastCall'.op # "none") =>
          /\ lastCall'.ret = TRUE
          /\ isOpen' = isOpen
          /\ context' = context
          /\ isOpen' = FALSE]_vars

C13_Witness ==
    /\ usageLimits = Null
    /\ getPlanTier = "free"
    /\ lastCall.op = "checkWhatsAppOfficial"
    /\ lastCall.ret = TRUE
    /\ ~isOpen
    /\ context = Null

\* the snapshot fields every quota call reads
QuotaFields ==
    [op \in QuotaCalls |->
        IF op \in DOMAIN CanCreateFields
        THEN CanCreateFields[op]
        ELSE [limit |-> CheckLimitFields[op].limit, used |-> CheckLimitFields[op].used]]

\* C14: a negative usage counter counts as zero used: a quota call on a snapshot with
\* used < 0 returns what it returns for used = 0, that is true iff the limit is
\* unlimited or above zero.
C14_NegativeUsedCountsAsZero ==
    (/\ usageLimits # Null
     /\ lastCall.op \in QuotaCalls
     /\ usageLimits[QuotaFields[lastCall.op].used] < 0) =>
        LET limit == usageLimits[QuotaFields[lastCall.op].limit]
        IN  lastCall.ret = (limit = Unlimited \/ 0 < limit)

\* the table entries whose keyword the lower-cased message contains
Contained(message) ==
    {i \in 1..Len(ERROR_TO_UPGRADE_REASON) :
        includes(toLowerCase(message), ERROR_TO_UPGRADE_REASON[i].keyword)}

\* C15: the reason the interceptor classifies a server message to is the reason of the
\* first table keyword the lower-cased message contains, 'general' iff it contains
\* none; a message containing "limite de agentes" gives agents_limit, and a message
\* naming a feature's keyword gives that feature's reason.
C15_ClassifiedByKeyword ==
    context # Null =>
        LET message == context.customMessage
            hits == Contained(message)
        IN  /\ context.reason =
                  IF hits = {} THEN "general"
                  ELSE ERROR_TO_UPGRADE_REASON[CHOOSE i \in hits : \A j \in hits : i <= j].reason
            /\ (context.reason = "general") <=> (hits = {})
            /\ includes(toLowerCase(message), "limite de agentes") =>
                   context.reason = "agents_limit"
            /\ \A i \in hits : context.reason = ERROR_TO_UPGRADE_REASON[i].reason

\* C16: a 403 response opens the upgrade modal with the classified reason ('general'
\* when the detail is missing or contains no keyword), the server's detail as
\* customMessage and the table's plan for that reason; the request's promise rejects,
\* and the step refreshes no token and logs nobody out.
C16_ForbiddenSurfaced ==
    [][(req.pc = "sent" /\ req'.status = 403) =>
          LET detail == detailOf(req'.data)
          IN  /\ isOpen'
              /\ context' # Null
              /\ DOMAIN context' = {"reason", "customMessage", "suggestedPlan"}
              /\ context'.reason = detectUpgradeReason(detail)
              /\ (req'.data = Null \/ Contained(detail) = {}) => context'.reason = "general"
              /\ context'.customMessage = detail
              /\ context'.suggestedPlan = MINIMUM_PLAN_FOR_FEATURE[context'.reason]
              /\ req'.pc = "rejected"
              /\ auth' = auth
              /\ user' = user
              /\ req'.refreshes = req.refreshes
              /\ req'.logouts = req.logouts]_vars

C16_Witness ==
    /\ req.pc = "rejected"
    /\ req.status = 403
    /\ req.data = Null
    /\ isOpen
    /\ context = [reason |-> "general", customMessage |-> "", suggestedPlan |-> "starter"]
    /\ auth = LoggedIn

\* C17: refresh triggers collapse: at most one GET /dashboard/usage-limits is in
\* flight at any time.
C17_OneRefreshInFlight == Cardinality(fetches.pending) <= 1

\* C18: once overlapping refreshes have all succeeded, the snapshot held is the
\* response of the most recently issued one, whatever the order of arrival.
C18_NewestRefreshWins ==
    (/\ fetches.issued >= 2
     /\ fetches.pending = {}
     /\ fetches.failed = {}) => usageLimits = fetches.newest

\* C19: a refresh that fails leaves usageLimits as it was, one that succeeds replaces
\* it by a whole response, both end with isLoading = false, and nothing else changes
\* the snapshot.
C19_SnapshotReplacedWhole ==
    [][/\ fetches'.failed # fetches.failed =>
              usageLimits' = usageLimits /\ isLoading' = FALSE
       /\ fetches'.succeeded # fetches.succeeded =>
              /\ isLoading' = FALSE
              /\ \E q \in RefreshQuotas : usageLimits' = UsageLimitsOf(getPlanTier, q)
       /\ usageLimits' # usageLimits => fetches'.succeeded # fetches.succeeded]_vars

C19_Witness ==
    /\ fetches.succeeded = {1}
    /\ fetches.failed = {2}
    /\ fetches.last = "failed"
    /\ usageLimits # Null
    /\ usageLimits.leads_limit = 1
    /\ usageLimits.leads_used = 1
    /\ ~isLoading

\* C20: quota checks fail open after a failed fetch: when the last refresh of
\* usePlanLimits failed, every canCreate* and check*Limit call allows the action, and
\* when the last check of useCanAddLeads failed, canAdd is true.
C20_FailOpenAfterFailedFetch ==
    /\ (fetches.last = "failed" /\ lastCall.op \in QuotaCalls) => lastCall.ret = TRUE
    /\ canAddLeads.request = "failed" => canAddLeads.canAdd = TRUE

\* the tiers strictly above tier t
TiersAbove(t) == {p \in PlanTier : ordinal(p) > ordinal(t)}

\* C21: the modal lists exactly the tiers strictly above the user's tier (none for
\* scale), and the Upgrade page rejects every plan id that is not strictly above it,
\* unknown ids included.
C21_OnlyHigherTiersOffered ==
    /\ context # Null =>
           /\ UpgradeModal.availablePlans = TiersAbove(getPlanTier)
           /\ getPlanTier = "scale" => UpgradeModal.availablePlans = {}
    /\ page.selected # "null" => page.offered = TiersAbove(getPlanTier)
    /\ page.toast # "none" =>
           ((page.toast = "Plano não disponível") <=>
                (page.planId \notin PlanTier \/ page.planId \notin TiersAbove(getPlanTier)))

C21_Witness ==
    /\ getPlanTier = "starter"
    /\ page.offered = {"pro", "scale"}
    /\ page.planId = "starter"
    /\ page.toast = "Plano não disponível"

C23_SilentAndModalCheckAgree ==
    /\ lastCall.op \in {"canCreateLead", "checkLeadsLimit"} => lastCall.ret = canCreateLead
    /\ lastCall.op \in {"canCreateAgent", "checkAgentsLimit"} => lastCall.ret = canCreateAgent
    /\ lastCall.op \in {"canCreateCampaign", "checkCampaignsLimit"} =>
           lastCall.ret = canCreateCampaign

C23_Witness ==
    /\ lastCall = [op |-> "checkLeadsLimit", ret |-> FALSE]
    /\ usageLimits # Null
    /\ usageLimits.leads_limit = 1
    /\ usageLimits.leads_used = 1
    /\ ~canCreateLead

\* authStore after logout()
LoggedOut ==
    /\ user = Null
    /\ auth = [accessToken |-> "null", refreshToken |-> "null", isAuthenticated |-> FALSE]

\* C24: a request is re-sent at most once: its handling makes at most one token
\* refresh and one re-send, and a 401 on the re-sent request is not retried, logs out
\* and rejects the promise.
C24_RetriedAtMostOnce ==
    [][/\ req'.refreshes <= 1
       /\ req'.resends <= 1
       /\ (req.pc = "sent" /\ req.retry /\ req'.status = 401) =>
              /\ req'.pc = "rejected"
              /\ LoggedOut'
              /\ req'.logouts = req.logouts + 1
              /\ req'.refreshes = req.refreshes
              /\ req'.resends = req.resends]_vars

C24_Witness ==
    /\ req.pc = "rejected"
    /\ req.status = 401
    /\ req.refreshes = 1
    /\ req.resends = 1
    /\ req.logouts = 1
    /\ LoggedOut

\* C25: a first 401 without a stored refresh token, or one whose refresh call fails,
\* ends with the auth store logged out and the promise rejected; a refresh that
\* succeeds stores both new tokens and the request is re-sent with the new access token.
C25_RefreshOrLogout ==
    [][/\ (req.pc = "sent" /\ ~req.retry /\ req'.status = 401
              /\ auth.refreshToken = "null") =>
              LoggedOut' /\ req'.pc = "rejected"
       /\ (req.pc = "refreshing" /\ req'.pc = "rejected") => LoggedOut'
       /\ (req.pc = "refreshing" /\ req'.pc # "rejected" /\ req' # req) =>
              /\ req'.pc = "sent"
              /\ \E data \in RefreshResponses :
                    /\ auth' = [accessToken |-> data.access_token,
                                refreshToken |-> data.refresh_token,
                                isAuthenticated |-> TRUE]
                    /\ req'.token = data.access_token
       /\ (req.pc = "sent" /\ ~req.retry /\ req'.status = 401
              /\ auth.refreshToken # "null") => req'.pc = "refreshing" /\ auth' = auth]_vars

C25_Witness ==
    /\ req.pc = "sent"
    /\ req.retry
    /\ req.token = "access1"
    /\ auth = [accessToken |-> "access1", refreshToken |-> "refresh1",
               isAuthenticated |-> TRUE]

\* C26: after logout() the store is not authenticated again before login(): at no time
\* is isAuthenticated true while user is null, whatever request started before the
\* logout completes after it.
C26_LogoutSticks == auth.isAuthenticated => user # Null

\* the close event of some socket is dispatched in this step, with this code
ClosesWith(code) ==
    \E id \in SocketIds :
        /\ ws.sockets[id] = [readyState |-> "closing", code |-> code]
        /\ ws'.sockets[id].readyState = "closed"

\* a socket is constructed in this step
Constructs ==
    \E id \in SocketIds :
        /\ ws.sockets[id].readyState # "connecting"
        /\ ws'.sockets[id].readyState = "connecting"

\* C27: a close with a code other than 1000 schedules exactly one reconnect timeout,
\* a close with code 1000 schedules none, and once the component is unmounted no
\* socket is constructed any more.
C27_ReconnectOnlyWhileMounted ==
    [][/\ \A code \in {1005, 1006} : ClosesWith(code) => ws'.timeouts = ws.timeouts + 1
       /\ ClosesWith(1000) => ws'.timeouts = ws.timeouts
       /\ ws.phase = "unmounted" => ~Constructs]_vars

\* one socket open, reported as connected, with one ping interval running
Settled ==
    /\ Cardinality({id \in SocketIds : ws.sockets[id].readyState = "open"}) = 1
    /\ ws.isConnected
    /\ Cardinality(ws.intervals) = 1

\* C28: with a server that accepts connections and drops none, the hook settles, and
\* stays, with exactly one open socket, isConnected = true and one ping interval,
\* whatever reconnect() calls and dependency changes replaced earlier sockets.
C28_SettlesConnected == <>[]Settled

\* C29: leads is the sequence of the leads of the lead_found messages received since
\* the last reset, in arrival order; a ping, pong or connected message changes none of
\* progress, leads, completed and error; a pong is sent only for a ping that arrived
\* on an open socket.
C29_LeadsInArrivalOrder ==
    [][/\ ws'.leads = ws'.received
       /\ ws'.lastMessage \in {"ping", "pong", "connected"} =>
              /\ ws'.progress = ws.progress
              /\ ws'.leads = ws.leads
              /\ ws'.completed = ws.completed
              /\ ws'.error = ws.error
       /\ ws'.pong = "sent" =>
              /\ ws'.lastMessage = "ping"
              /\ \E id \in SocketIds : ws.sockets[id].readyState = "open"]_vars

C29_Witness ==
    /\ ws.leads = <<"lead b", "lead a">>
    /\ ws.lastMessage = "ping"
    /\ ws.pong = "sent"
    /\ ws.replaced = 1

\* C30: once the dialog is closed, every promise confirm() has returned is resolved,
\* with true or false, also after a dismissal through onOpenChange and after a second
\* confirm() call made while the first promise was pending.
C30_EveryConfirmResolved ==
    ~dialog.isOpen =>
        \A id \in 1..dialog.created : dialog.promises[id] \in {"true", "false"}

====
